---------------------------- MODULE Spec2Model ----------------------------
(***************************************************************************)
(* A model of the market-price scraper: the value normalizers of           *)
(* scrapers/base.py and scrapers/mns.py, the two site adapters             *)
(* (scrapers/mns.py, scrapers/pns.py), URL discovery, scrape_all and the   *)
(* SQLite upsert of DatabaseManager.                                       *)
(*                                                                         *)
(* Conventions.  A Python str is a sequence of one-character strings.      *)
(* Optional[T] is a sequence of length 0 (None) or 1 (the value).  A float *)
(* is kept as the exact decimal it was read from: [mant, decpt] is         *)
(* 0.d1d2..dn * 10^decpt with mant = <<d1,..,dn>>, d1 # 0, dn # 0 (the     *)
(* digits and decimal point position float.__repr__ works from); this is   *)
(* exact for the literals of at most 15 significant digits the bounds      *)
(* allow.  A call that raises is a record with exc = TRUE.                 *)
(***************************************************************************)
EXTENDS Integers, Sequences, FiniteSets, TLC

VARIABLES
    (* price parsing (extract_price / _extract_price) *)
    parser, ptext, pout, pprev, pcalls,
    (* pack size parsing (parse_pack_size) *)
    ktext, kout, kdone,
    (* the products table, the clock, and what the last upsert call did *)
    store, now, calls, latest, lastCall, alt,
    (* scrape_product and check_stock applied to one fetched page *)
    sadapter, spage, sout, sstock, sdone,
    (* PNSScraper.get_product_urls: position, loop variables, and what the  *)
    (* current category has cost so far                                     *)
    dpc, dcat, page_num, product_urls, last_height, new_height, dscrolls, dfetched,
    dlastnew,
    (* BaseScraper.scrape_all: position, loop variables, and the log of the *)
    (* URLs processed                                                       *)
    rpc, radapter, rdb, rurls, ri, rproducts, rlog,
    (* a text lookup over an ordered list of selectors *)
    xwhich, xmatches, xout, xdone

priceVars == <<parser, ptext, pout, pprev, pcalls>>
packVars == <<ktext, kout, kdone>>
dbVars == <<store, now, calls, latest, lastCall, alt>>
scrapeVars == <<sadapter, spage, sout, sstock, sdone>>
discoverVars == <<dpc, dcat, page_num, product_urls, last_height, new_height, dscrolls,
                  dfetched, dlastnew>>
runVars == <<rpc, radapter, rdb, rurls, ri, rproducts, rlog>>
extractVars == <<xwhich, xmatches, xout, xdone>>
vars == <<priceVars, packVars, dbVars, scrapeVars, discoverVars, runVars, extractVars>>

(***************************************************************************)
(* Bounds of the model.                                                    *)
(***************************************************************************)
MaxTextLen == 3
MaxDigitsLen == 7
MaxPackLen == 4
MaxBatch == 2
MaxCalls == 2
MaxTime == 1
MaxReplays == 1
MaxHits == 2
MaxFragments == 2
MaxIds == 4
MaxHeight == 2
MaxScrolls == 2
MaxSelectors == 3

(***************************************************************************)
(* Python values.                                                          *)
(***************************************************************************)
None == <<>>
Some(x) == <<x>>
IsNone(o) == o = <<>>
Val(o) == o[1]

DigitChars == <<"0", "1", "2", "3", "4", "5", "6", "7", "8", "9">>
Digits == {DigitChars[i] : i \in 1..10}
DigitVal(c) == (CHOOSE i \in 1..10 : DigitChars[i] = c) - 1
DigitChar(n) == DigitChars[n + 1]
LowerLetters == {"a", "b", "c", "d", "e", "f", "g", "h", "i", "j", "k", "l", "m",
                 "n", "o", "p", "q", "r", "s", "t", "u", "v", "w", "x", "y", "z"}
UpperLetters == {"A", "B", "C", "D", "E", "F", "G", "H", "I", "J", "K", "L", "M",
                 "N", "O", "P", "Q", "R", "S", "T", "U", "V", "W", "X", "Y", "Z"}
Letters == LowerLetters \cup UpperLetters
Whitespace == {" ", "\n", "\t"}

(* All sequences over S of length at most n. *)
SeqsUpTo(S, n) == UNION {[1..k -> S] : k \in 0..n}

Drop(s, n) == SubSeq(s, n + 1, Len(s))
Take(s, n) == SubSeq(s, 1, n)
StartsWith(s, pat) == Len(s) >= Len(pat) /\ Take(s, Len(pat)) = pat

(* str.replace(pat, ''): every non-overlapping occurrence, left to right. *)
RECURSIVE Remove(_, _)
Remove(s, pat) ==
    IF Len(s) < Len(pat) THEN s
    ELSE IF StartsWith(s, pat) THEN Remove(Drop(s, Len(pat)), pat)
    ELSE <<Head(s)>> \o Remove(Tail(s), pat)

RECURSIVE LStrip(_)
LStrip(s) == IF s # <<>> /\ Head(s) \in Whitespace THEN LStrip(Tail(s)) ELSE s
RECURSIVE RStrip(_)
RStrip(s) ==
    IF s # <<>> /\ s[Len(s)] \in Whitespace THEN RStrip(Take(s, Len(s) - 1)) ELSE s
(* str.strip() *)
Strip(s) == RStrip(LStrip(s))

(* The length of the longest prefix of s whose characters are all in S. *)
RECURSIVE RunLen(_, _)
RunLen(s, S) == IF s # <<>> /\ Head(s) \in S THEN 1 + RunLen(Tail(s), S) ELSE 0

(***************************************************************************)
(* float(): the literals that reach it are regex matches.  A match of      *)
(* digits with at most one '.' and at least one digit converts; any other  *)
(* character (every match of the base.py patterns holds a backslash, a 'd' *)
(* or only dots) makes float() raise ValueError, here None.                *)
(***************************************************************************)
RECURSIVE StripLeadZeros(_)
StripLeadZeros(d) == IF d # <<>> /\ Head(d) = 0 THEN StripLeadZeros(Tail(d)) ELSE d
RECURSIVE StripTrailZeros(_)
StripTrailZeros(d) ==
    IF d # <<>> /\ d[Len(d)] = 0 THEN StripTrailZeros(Take(d, Len(d) - 1)) ELSE d

Zero == [mant |-> <<>>, decpt |-> 0]

(* The float with integer digits ip and fraction digits fp (digit values). *)
MkFloat(ip, fp) ==
    LET all == ip \o fp
        lead == RunLen(all, {0})
        mant == StripTrailZeros(StripLeadZeros(all))
    IN  IF mant = <<>> THEN Zero ELSE [mant |-> mant, decpt |-> Len(ip) - lead]

PyFloat(s) ==
    LET dots == {i \in 1..Len(s) : s[i] = "."}
        n1 == IF dots = {} THEN Len(s) ELSE (CHOOSE i \in dots : TRUE) - 1
        ip == [i \in 1..n1 |-> DigitVal(s[i])]
        fp == [i \in 1..(Len(s) - n1 - 1) |-> DigitVal(s[n1 + 1 + i])]
    IN  IF \/ \E i \in 1..Len(s) : s[i] \notin Digits \cup {"."}
           \/ Cardinality(dots) > 1
           \/ Len(s) - Cardinality(dots) = 0
        THEN None
        ELSE Some(MkFloat(ip, IF dots = {} THEN <<>> ELSE fp))

(* x > 0 for a float of the model (the literals carry no sign). *)
Positive(x) == x.mant # <<>>

(***************************************************************************)
(* str(float), i.e. float.__repr__: the shortest digits that round-trip,   *)
(* in positional notation when -4 < decpt <= 16 and in exponent notation   *)
(* otherwise ('1e-05', '1e+16').                                           *)
(***************************************************************************)
Zeros(n) == [i \in 1..n |-> "0"]
DigitStr(d) == [i \in 1..Len(d) |-> DigitChar(d[i])]
RECURSIVE NatStr(_)
NatStr(n) == IF n < 10 THEN <<DigitChar(n)>> ELSE NatStr(n \div 10) \o <<DigitChar(n % 10)>>

ExpStr(e) ==
    LET a == IF e < 0 THEN -e ELSE e
    IN  <<"e", IF e < 0 THEN "-" ELSE "+">> \o
        (IF a < 10 THEN <<"0">> ELSE <<>>) \o NatStr(a)

PyStr(x) ==
    LET n == Len(x.mant)
        p == x.decpt
    IN  IF n = 0 THEN <<"0", ".", "0">>
        ELSE IF p > -4 /\ p <= 16
        THEN IF p <= 0 THEN <<"0", ".">> \o Zeros(-p) \o DigitStr(x.mant)
             ELSE IF p >= n THEN DigitStr(x.mant) \o Zeros(p - n) \o <<".", "0">>
             ELSE DigitStr(Take(x.mant, p)) \o <<".">> \o DigitStr(Drop(x.mant, p))
        ELSE <<DigitChar(x.mant[1])>> \o
             (IF n > 1 THEN <<".">> \o DigitStr(Tail(x.mant)) ELSE <<>>) \o
             ExpStr(p - 1)

(***************************************************************************)
(* Price parsing.                                                          *)
(***************************************************************************)
Returned(v) == [exc |-> FALSE, val |-> v]
Raised == [exc |-> TRUE, val |-> Zero]

(* re.search(r'[\d]+\.?\d*', text).group(), mns.py: the leftmost digit run, *)
(* an optional '.', and the digits after it; None when text has no digit.  *)
RECURSIVE MnsPriceSearch(_)
MnsPriceSearch(s) ==
    IF s = <<>> THEN None
    ELSE IF Head(s) \in Digits
    THEN LET n1 == RunLen(s, Digits)
             dot == IF Len(s) > n1 /\ s[n1 + 1] = "." THEN 1 ELSE 0
             n2 == IF dot = 1 THEN RunLen(Drop(s, n1 + 1), Digits) ELSE 0
         IN  Some(Take(s, n1 + dot + n2))
    ELSE MnsPriceSearch(Tail(s))

(* re.search(r'[\\d]+\\.?\\d*', text).group(), base.py: the pattern, written *)
(* with doubled backslashes in a raw string, is: one or more of '\' and    *)
(* 'd', a '\', at most one character other than a newline, a '\', then any *)
(* number of 'd'.  Greedy with backtracking, leftmost match.               *)
BasePriceMatchAt(s) ==
    LET r == RunLen(s, {"\\", "d"})
        (* the class takes s[1..k]; s[k+1] is the first literal backslash *)
        Tail2(k) == Drop(s, k + 1)
        WithAny(k) == Len(Tail2(k)) >= 2 /\ Tail2(k)[1] # "\n" /\ Tail2(k)[2] = "\\"
        WithoutAny(k) == Len(Tail2(k)) >= 1 /\ Tail2(k)[1] = "\\"
        Ok(k) == Len(s) >= k + 1 /\ s[k + 1] = "\\" /\ (WithAny(k) \/ WithoutAny(k))
        ks == {k \in 1..r : Ok(k)}
        k == CHOOSE j \in ks : \A i \in ks : i <= j
        mid == IF WithAny(k) THEN 2 ELSE 1
        ds == RunLen(Drop(s, k + 1 + mid), {"d"})
    IN  IF ks = {} THEN None ELSE Some(Take(s, k + 1 + mid + ds))

RECURSIVE BasePriceSearch(_)
BasePriceSearch(s) ==
    IF s = <<>> THEN None
    ELSE IF BasePriceMatchAt(s) # None THEN BasePriceMatchAt(s)
    ELSE BasePriceSearch(Tail(s))

(* float(match.group()): a ValueError propagates to the caller. *)
FloatOfMatch(m) ==
    IF m = None THEN Returned(Zero)
    ELSE IF PyFloat(Val(m)) = None THEN Raised
    ELSE Returned(Val(PyFloat(Val(m))))

HKD == <<"H", "K", "D">>
HK == <<"H", "K">>

(* _extract_price with '.' removed as the thousands separator. *)
_extract_price_dot(text) ==
    IF text = <<>> THEN Returned(Zero)
    ELSE LET t == Strip(Remove(Remove(Remove(text, <<".">>), <<"$">>), HKD))
         IN  FloatOfMatch(MnsPriceSearch(t))

(* MarksAndSpencerHKScraper._extract_price *)
_extract_price(text) ==
    IF text = <<>> THEN Returned(Zero)
    ELSE LET t == Strip(Remove(Remove(Remove(text, <<",">>), <<"$">>), HKD))
         IN  FloatOfMatch(MnsPriceSearch(t))

(* BaseScraper.extract_price *)
extract_price(text) ==
    IF text = <<>> THEN Returned(Zero)
    ELSE LET t == Strip(Remove(Remove(Remove(Remove(text, <<",">>), <<"$">>), HKD), HK))
         IN  FloatOfMatch(BasePriceSearch(t))

ParsePrice(which, text) ==
    IF which = "base" THEN extract_price(text) ELSE _extract_price(text)

(***************************************************************************)
(* Pack size parsing.                                                      *)
(***************************************************************************)
PackPrefix1 == <<"P", "a", "c", "k", " ", "s", "i", "z", "e", " ", "-", " ">>
PackPrefix2 == <<"P", "a", "c", "k", " ", "s", "i", "z", "e", " ", "-">>

PackResult(q, u) == [exc |-> FALSE, quantity |-> q, unit |-> u]
PackRaised == [exc |-> TRUE, quantity |-> None, unit |-> None]

(* re.match(r'([\\d.]+)\\s*([a-zA-Z]+)', text), base.py: with the doubled   *)
(* backslashes the pattern is: group 1, one or more of '\', 'd' and '.';   *)
(* a '\'; any number of 's'; group 2, one or more letters.  Anchored at    *)
(* the start, greedy with backtracking.  The groups, or None.              *)
BasePackMatch(s) ==
    LET r == RunLen(s, {"\\", "d", "."})
        ks == {k \in 1..r : /\ Len(s) >= k + 2
                            /\ s[k + 1] = "\\"
                            /\ s[k + 2] \in Letters}
        k == CHOOSE j \in ks : \A i \in ks : i <= j
        rest == Drop(s, k + 1)
        L == RunLen(rest, Letters)
        sRun == RunLen(rest, {"s"})
        m == IF sRun = L THEN sRun - 1 ELSE sRun
    IN  IF ks = {} THEN None
        ELSE Some([g1 |-> Take(s, k), g2 |-> SubSeq(rest, m + 1, L)])

(* re.match(r'([\d.]+)\s*([a-zA-Z]+)', text), mns.py: group 1, one or more *)
(* digits and dots; whitespace; group 2, one or more letters.              *)
MnsPackMatch(s) ==
    LET n == RunLen(s, Digits \cup {"."})
        w == RunLen(Drop(s, n), Whitespace)
        L == RunLen(Drop(s, n + w), Letters)
    IN  IF n = 0 \/ L = 0 THEN None
        ELSE Some([g1 |-> Take(s, n), g2 |-> SubSeq(s, n + w + 1, n + w + L)])

(* quantity = float(match.group(1)); unit = match.group(2) *)
PackOfMatch(m) ==
    IF m = None THEN PackResult(None, None)
    ELSE IF PyFloat(Val(m).g1) = None THEN PackRaised
    ELSE PackResult(PyFloat(Val(m).g1), Some(Val(m).g2))

(* BaseScraper.parse_pack_size *)
parse_pack_size(text) ==
    IF text = <<>> THEN PackResult(None, None)
    ELSE LET t == Strip(Remove(Remove(text, PackPrefix1), PackPrefix2))
         IN  PackOfMatch(BasePackMatch(t))

(***************************************************************************)
(* The products table (DatabaseManager).  A store is the committed table:  *)
(* rows, a set of row records, and seq, the AUTOINCREMENT counter of       *)
(* sqlite_sequence.  Timestamps are whole seconds, the resolution of       *)
(* CURRENT_TIMESTAMP; a datetime is a number of seconds.                   *)
(***************************************************************************)
EmptyStore == [rows |-> {}, seq |-> 0]

(* datetime.isoformat() and, on the read side, datetime.fromisoformat() *)
isoformat(t) == NatStr(t)
RECURSIVE fromisoformat(_)
fromisoformat(s) ==
    IF s = <<>> THEN 0 ELSE 10 * fromisoformat(Take(s, Len(s) - 1)) + DigitVal(s[Len(s)])

(* int(p.in_stock) and, on the read side, bool(row['in_stock']) *)
IntOfBool(b) == IF b THEN 1 ELSE 0
BoolOfInt(n) == n # 0

(* One tuple of the data list: the parameters of one statement. *)
RowData(p) ==
    [name |-> p.name, price |-> p.price, currency |-> p.currency, url |-> p.url,
     sku |-> p.sku, original_price |-> p.original_price,
     discount_percentage |-> p.discount_percentage, category |-> p.category,
     brand |-> p.brand, image_url |-> p.image_url, description |-> p.description,
     pack_size_quantity |-> p.pack_size_quantity, pack_size_unit |-> p.pack_size_unit,
     in_stock |-> IntOfBool(p.in_stock), scraped_at |-> isoformat(p.scraped_at)]

(* map_row_to_product: the Product a reader builds from a row. *)
ProductOfRow(r) ==
    [name |-> r.name, price |-> r.price, currency |-> r.currency, url |-> r.url,
     sku |-> r.sku, original_price |-> r.original_price,
     discount_percentage |-> r.discount_percentage, category |-> r.category,
     brand |-> r.brand, image_url |-> r.image_url, description |-> r.description,
     pack_size_quantity |-> r.pack_size_quantity, pack_size_unit |-> r.pack_size_unit,
     in_stock |-> BoolOfInt(r.in_stock), scraped_at |-> fromisoformat(r.scraped_at)]

(* The INSERT branch: id from AUTOINCREMENT, created_at and updated_at     *)
(* from DEFAULT CURRENT_TIMESTAMP.                                         *)
InsertedRow(d, id, t) ==
    [id |-> id, name |-> d.name, price |-> d.price, currency |-> d.currency,
     url |-> d.url, sku |-> d.sku, original_price |-> d.original_price,
     discount_percentage |-> d.discount_percentage, category |-> d.category,
     brand |-> d.brand, image_url |-> d.image_url, description |-> d.description,
     pack_size_quantity |-> d.pack_size_quantity, pack_size_unit |-> d.pack_size_unit,
     in_stock |-> d.in_stock, scraped_at |-> d.scraped_at,
     created_at |-> t, updated_at |-> t]

(* The ON CONFLICT(url) DO UPDATE SET list. *)
UpdatedRow(r, d, t) ==
    [r EXCEPT !.name = d.name, !.price = d.price, !.currency = d.currency,
              !.sku = d.sku, !.original_price = d.original_price,
              !.discount_percentage = d.discount_percentage,
              !.category = d.category, !.brand = d.brand,
              !.image_url = d.image_url, !.description = d.description,
              !.pack_size_quantity = d.pack_size_quantity,
              !.pack_size_unit = d.pack_size_unit, !.in_stock = d.in_stock,
              !.scraped_at = d.scraped_at, !.updated_at = t]

(* The SET list without sku, original_price and discount_percentage. *)
UpdatedRowPartial(r, d, t) ==
    [r EXCEPT !.name = d.name, !.price = d.price, !.currency = d.currency,
              !.category = d.category, !.brand = d.brand,
              !.image_url = d.image_url, !.description = d.description,
              !.pack_size_quantity = d.pack_size_quantity,
              !.pack_size_unit = d.pack_size_unit, !.in_stock = d.in_stock,
              !.scraped_at = d.scraped_at, !.updated_at = t]

(* INSERT OR REPLACE in place of the upsert: the old row is deleted. *)
ExecReplace(st, d, t) ==
    [rows |-> {r \in st.rows : r.url # d.url} \cup {InsertedRow(d, st.seq + 1, t)},
     seq |-> st.seq + 1]

(* The upsert with a SET list that misses columns. *)
ExecUpsertPartial(st, d, t) ==
    LET hit == {r \in st.rows : r.url = d.url}
    IN  IF hit = {}
        THEN [rows |-> st.rows \cup {InsertedRow(d, st.seq + 1, t)}, seq |-> st.seq + 1]
        ELSE [rows |-> (st.rows \ hit) \cup {UpdatedRowPartial(r, d, t) : r \in hit},
              seq |-> st.seq + 1]

(* The upsert with the conflict target name in place of url. *)
ExecUpsertByName(st, d, t) ==
    LET hit == {r \in st.rows : r.name = d.name}
    IN  IF hit = {}
        THEN [rows |-> st.rows \cup {InsertedRow(d, st.seq + 1, t)}, seq |-> st.seq + 1]
        ELSE [rows |-> (st.rows \ hit) \cup {UpdatedRow(r, d, t) : r \in hit},
              seq |-> st.seq + 1]

(* One execution of upsert_query at time t.  SQLite draws the next         *)
(* AUTOINCREMENT value for the statement whether or not the conflict       *)
(* clause then turns it into an update.                                    *)
ExecUpsert(st, d, t) ==
    LET hit == {r \in st.rows : r.url = d.url}
    IN  IF hit = {}
        THEN [rows |-> st.rows \cup {InsertedRow(d, st.seq + 1, t)}, seq |-> st.seq + 1]
        ELSE [rows |-> (st.rows \ hit) \cup {UpdatedRow(r, d, t) : r \in hit},
              seq |-> st.seq + 1]

(* cur.executemany(upsert_query, data), its first n statements. *)
RECURSIVE ExecMany(_, _, _, _)
ExecMany(st, products, n, t) ==
    IF n = 0 THEN st
    ELSE ExecUpsert(ExecMany(st, products, n - 1, t), RowData(products[n]), t)

(* self.conn.commit(): the transaction's work becomes the table. *)
Commit(before, work) == work
(* The except branch without the rollback: the work done so far stays. *)
NoRollback(before, work) == work
(* self.conn.rollback(): the table is what it was before the transaction. *)
Rollback(before, work) == before

(* upsert_products whose except branch rolls back and does not raise. *)
upsert_products_swallowed(st, products, failAt, t) ==
    IF products = <<>> THEN [store |-> st, status |-> "noop"]
    ELSE IF failAt = 0
    THEN [store |-> Commit(st, ExecMany(st, products, Len(products), t)),
          status |-> "committed"]
    ELSE [store |-> Rollback(st, ExecMany(st, products, failAt - 1, t)),
          status |-> "swallowed"]

(* DatabaseManager.upsert_products(products) at time t; statement failAt   *)
(* raises (0: none does).  The store after the call, and how it ended.     *)
upsert_products(st, products, failAt, t) ==
    IF products = <<>> THEN [store |-> st, status |-> "noop"]
    ELSE IF failAt = 0
    THEN [store |-> Commit(st, ExecMany(st, products, Len(products), t)),
          status |-> "committed"]
    ELSE [store |-> Rollback(st, ExecMany(st, products, failAt - 1, t)),
          status |-> "raised"]

(***************************************************************************)
(* Float arithmetic, exact on the decimals of the model.                   *)
(***************************************************************************)
RECURSIVE Pow10(_)
Pow10(k) == IF k = 0 THEN 1 ELSE 10 * Pow10(k - 1)
RECURSIVE MantInt(_)
MantInt(d) == IF d = <<>> THEN 0 ELSE 10 * MantInt(Take(d, Len(d) - 1)) + d[Len(d)]
RECURSIVE NatDigits(_)
NatDigits(n) == IF n < 10 THEN <<n>> ELSE NatDigits(n \div 10) \o <<n % 10>>
Max(a, b) == IF a >= b THEN a ELSE b

FracDigits(x) == Max(0, Len(x.mant) - x.decpt)
(* x * 10^k as an integer, for k >= FracDigits(x). *)
IntAt(x, k) == MantInt(x.mant) * Pow10(x.decpt - Len(x.mant) + k)
CommonScale(a, b) == Max(FracDigits(a), FracDigits(b))
(* a > b *)
Gt(a, b) == IntAt(a, CommonScale(a, b)) > IntAt(b, CommonScale(a, b))
(* The float h / 100. *)
OfHundredths(h) == MkFloat(NatDigits(h \div 100), <<(h \div 10) % 10, h % 10>>)

(* round(((original_price - price) / original_price) * 100, 2), for       *)
(* original_price > price: the quotient in hundredths, rounded to the      *)
(* nearest (a tie, which Python settles on the binary value, to even).     *)
discount_of(original_price, price) ==
    LET k == CommonScale(original_price, price)
        o == IntAt(original_price, k)
        num == 10000 * (o - IntAt(price, k))
        q == num \div o
        r == num % o
        h == IF 2 * r > o THEN q + 1
             ELSE IF 2 * r < o THEN q
             ELSE IF q % 2 = 0 THEN q ELSE q + 1
    IN  OfHundredths(h)

(* The same without the rounding to two places (truncated). *)
discount_truncated(original_price, price) ==
    LET k == CommonScale(original_price, price)
        o == IntAt(original_price, k)
    IN  OfHundredths((10000 * (o - IntAt(price, k))) \div o)

(***************************************************************************)
(* Stock detection.                                                        *)
(***************************************************************************)
LowerOf(c) ==
    CASE c = "A" -> "a" [] c = "B" -> "b" [] c = "C" -> "c" [] c = "D" -> "d"
      [] c = "E" -> "e" [] c = "F" -> "f" [] c = "G" -> "g" [] c = "H" -> "h"
      [] c = "I" -> "i" [] c = "J" -> "j" [] c = "K" -> "k" [] c = "L" -> "l"
      [] c = "M" -> "m" [] c = "N" -> "n" [] c = "O" -> "o" [] c = "P" -> "p"
      [] c = "Q" -> "q" [] c = "R" -> "r" [] c = "S" -> "s" [] c = "T" -> "t"
      [] c = "U" -> "u" [] c = "V" -> "v" [] c = "W" -> "w" [] c = "X" -> "x"
      [] c = "Y" -> "y" [] c = "Z" -> "z" [] OTHER -> c
(* str.lower() *)
Lower(s) == [i \in 1..Len(s) |-> LowerOf(s[i])]

(* indicator in text *)
RECURSIVE Contains(_, _)
Contains(text, indicator) ==
    IF Len(text) < Len(indicator) THEN FALSE
    ELSE IF StartsWith(text, indicator) THEN TRUE
    ELSE Contains(Tail(text), indicator)

out_of_stock_indicators ==
    << <<"o", "u", "t", " ", "o", "f", " ", "s", "t", "o", "c", "k">>,
       <<"s", "o", "l", "d", " ", "o", "u", "t">>,
       <<"u", "n", "a", "v", "a", "i", "l", "a", "b", "l", "e">>,
       <<"n", "o", "t", " ", "a", "v", "a", "i", "l", "a", "b", "l", "e">> >>

(* The loop over the indicators: False at the first one found. *)
RECURSIVE StockLoop(_, _)
StockLoop(text, indicators) ==
    IF indicators = <<>> THEN TRUE
    ELSE IF Contains(text, Head(indicators)) THEN FALSE
    ELSE StockLoop(text, Tail(indicators))

(* BaseScraper.check_stock(soup, out_of_stock_indicators) *)
check_stock(page_text, indicators) == StockLoop(Lower(page_text), indicators)

(* The inline stock check of the M&S adapter, without .lower(). *)
MnsInStockCased(page_text) == StockLoop(page_text, out_of_stock_indicators)

(* The inline stock check of MarksAndSpencerHKScraper.scrape_product. *)
MnsInStock(page_text) == StockLoop(Lower(page_text), out_of_stock_indicators)

(***************************************************************************)
(* The adapters' scrape_product.  A fetched M&S page is what its selectors *)
(* find: per field, the texts (get_text(strip=True)) of the elements the   *)
(* selectors of the list match, in the order of the list.  A fetched PNS   *)
(* page is its ng-state JSON.  Texts that the code only copies are         *)
(* strings; texts it parses are sequences of characters.                   *)
(***************************************************************************)
IMPORT_TIME == 0
DescLimit == 500
MnsBaseUrl == "https://www.marksandspencer.hk"

Truthy(o) == o # None /\ Val(o) # ""
TruthyText(o) == o # None /\ Val(o) # <<>>
Truncate(d) == IF Len(d) > DescLimit THEN SubSeq(d, 1, DescLimit) ELSE d

RECURSIVE JoinStr(_, _)
JoinStr(parts, sep) ==
    IF parts = <<>> THEN ""
    ELSE IF Len(parts) = 1 THEN parts[1]
    ELSE parts[1] \o sep \o JoinStr(Tail(parts), sep)

MkProduct(name, price, url, sku, original_price, discount, category, brand, image_url, description, quantity, unit, in_stock) ==
    [name |-> name, price |-> price, currency |-> "HKD", url |-> url, sku |-> sku,
     original_price |-> original_price, discount_percentage |-> discount,
     category |-> category, brand |-> brand, image_url |-> image_url,
     description |-> description, pack_size_quantity |-> quantity,
     pack_size_unit |-> unit, in_stock |-> in_stock, scraped_at |-> IMPORT_TIME]

(* name: the text of the first matching selector, empty or not. *)
MnsName(hits) == IF hits = <<>> THEN None ELSE Some(hits[1])

(* pack size: the first matching selector, parsed inline. *)
MnsPack(hits) ==
    IF hits = <<>> THEN PackResult(None, None)
    ELSE PackOfMatch(MnsPackMatch(Remove(Remove(hits[1], PackPrefix1), PackPrefix2)))

(* price: each matching selector in turn until one parses to price > 0. *)
RECURSIVE MnsPrice(_)
MnsPrice(hits) ==
    IF hits = <<>> THEN Zero
    ELSE LET price == _extract_price(Head(hits)).val
         IN  IF Positive(price) THEN price
             ELSE IF Tail(hits) = <<>> THEN price
             ELSE MnsPrice(Tail(hits))

(* original price: each matching selector in turn until one parses to a   *)
(* value above price; otherwise the value of the last one that matched.    *)
RECURSIVE MnsOriginal(_, _, _)
MnsOriginal(hits, price, last) ==
    IF hits = <<>> THEN last
    ELSE LET original_price == _extract_price(Head(hits)).val
         IN  IF Positive(original_price) /\ Gt(original_price, price)
             THEN Some(original_price)
             ELSE MnsOriginal(Tail(hits), price, Some(original_price))

(* The discount computed from the truncated quotient. *)
DiscountTruncated(original_price, price) ==
    IF /\ original_price # None /\ Positive(Val(original_price))
       /\ Positive(price)
       /\ Gt(Val(original_price), price)
    THEN Some(discount_truncated(Val(original_price), price))
    ELSE None

(* if original_price and price and original_price > price *)
Discount(original_price, price) ==
    IF /\ original_price # None /\ Positive(Val(original_price))
       /\ Positive(price)
       /\ Gt(Val(original_price), price)
    THEN Some(discount_of(Val(original_price), price))
    ELSE None

(* sku: the page's sku patterns, then the digits that end the url. *)
UrlSku(url) ==
    IF url # "" /\ SubSeq(url, Len(url), Len(url)) \in Digits
    THEN Some(SubSeq(url, Len(url), Len(url)))
    ELSE None
MnsSku(page, url) == IF Truthy(page.sku_match) THEN page.sku_match ELSE UrlSku(url)

MnsCategory(breadcrumb) ==
    LET categories == SelectSeq(breadcrumb, LAMBDA b : b # "")
    IN  IF categories = <<>> THEN None ELSE Some(JoinStr(categories, " > "))

MnsDescription(hits) == IF hits = <<>> THEN None ELSE Some(Truncate(hits[1]))

(* image: the first matching img that has a src, made absolute. *)
RECURSIVE MnsImage(_)
MnsImage(hits) ==
    IF hits = <<>> THEN None
    ELSE IF Truthy(Head(hits))
    THEN LET src == Val(Head(hits))
         IN  Some(IF SubSeq(src, 1, 4) = "http" THEN src ELSE MnsBaseUrl \o src)
    ELSE MnsImage(Tail(hits))

(* scrape_product without the test 'if not name': an empty name text      *)
(* becomes the name of a Product (an absent one fails validation).         *)
MnsScrapeProductUnnamed(url, page) ==
    IF page = None THEN None
    ELSE LET pg == Val(page)
             name == MnsName(pg.name_hits)
             pack == MnsPack(pg.pack_hits)
             price == MnsPrice(pg.price_hits)
             original_price == MnsOriginal(pg.original_hits, price, None)
         IN  IF pack.exc \/ name = None THEN None
             ELSE Some(MkProduct(Val(name), price, url, MnsSku(pg, url), original_price,
                                 Discount(original_price, price),
                                 MnsCategory(pg.breadcrumb), Some("Marks & Spencer"),
                                 MnsImage(pg.img_hits), MnsDescription(pg.desc_hits),
                                 pack.quantity, pack.unit, MnsInStock(pg.page_text)))

(* MarksAndSpencerHKScraper.scrape_product(url), page being what           *)
(* fetch_page(url) returned (None: the fetch failed).  The Product, or     *)
(* None.                                                                   *)
MnsScrapeProduct(url, page) ==
    IF page = None THEN None
    ELSE LET pg == Val(page)
             name == MnsName(pg.name_hits)
             pack == MnsPack(pg.pack_hits)
             price == MnsPrice(pg.price_hits)
             original_price == MnsOriginal(pg.original_hits, price, None)
             discount == Discount(original_price, price)
         IN  IF pack.exc THEN None   \* except Exception: return None
             ELSE IF ~Truthy(name) THEN None
             ELSE Some(MkProduct(Val(name), price, url, MnsSku(pg, url), original_price,
                                 discount, MnsCategory(pg.breadcrumb),
                                 Some("Marks & Spencer"), MnsImage(pg.img_hits),
                                 MnsDescription(pg.desc_hits), pack.quantity, pack.unit,
                                 MnsInStock(pg.page_text)))

(* The product data read from variants.value before details.value. *)
PnsProductDataVariantsFirst(data) ==
    IF data.entities = <<>> THEN None
    ELSE LET entity == data.entities[1]
         IN  IF entity.variants # None THEN entity.variants ELSE entity.details

(* The entry of the first key under cx-state.product.details.entities:     *)
(* its details.value, or when that is empty its variants.value.            *)
PnsProductData(data) ==
    IF data.entities = <<>> THEN None
    ELSE LET entity == data.entities[1]
         IN  IF entity.details # None THEN entity.details ELSE entity.variants

(* PNSScraper.scrape_product(url).  In product_data, price_value is <<>>   *)
(* when price.value is missing (the default 0.0 applies), otherwise the    *)
(* singleton of the JSON value (None: null).                               *)
PnsScrapeProduct(url, page) ==
    IF page = None THEN None
    ELSE IF Val(page).ng_state = None THEN None
    ELSE IF ~Val(Val(page).ng_state).valid THEN None   \* json.loads raises
    ELSE IF PnsProductData(Val(Val(page).ng_state)) = None THEN None
    ELSE LET d == Val(PnsProductData(Val(Val(page).ng_state)))
             price == IF d.price_value = <<>> THEN Some(Zero) ELSE Val(d.price_value)
             original_price == d.old_value
             pack == IF TruthyText(d.content_size_unit)
                     THEN parse_pack_size(Val(d.content_size_unit))
                     ELSE PackResult(None, None)
             discount == IF price = None THEN None
                         ELSE Discount(original_price, Val(price))
             category == IF d.category_levels = <<>> THEN None
                         ELSE Some(JoinStr(d.category_levels, " > "))
             description == IF Truthy(d.description) THEN Some(Truncate(Val(d.description)))
                            ELSE Some("")
         IN  IF pack.exc THEN None          \* except Exception: return None
             ELSE IF ~Truthy(d.name) THEN None
             ELSE IF price = None THEN None   \* float(None) raises
             ELSE Some(MkProduct(Val(d.name), Val(price), url, d.base_product,
                                 IF original_price # None /\ Positive(Val(original_price))
                                 THEN original_price ELSE None,
                                 discount, category,
                                 IF Truthy(d.supplier_name) THEN d.supplier_name
                                 ELSE Some("PNS"),
                                 d.image_url, description, pack.quantity, pack.unit,
                                 d.stock_level_status = Some("inStock")))

ScrapeProduct(which, url, page) ==
    IF which = "mns" THEN MnsScrapeProduct(url, page) ELSE PnsScrapeProduct(url, page)

(***************************************************************************)
(* URL discovery of the PNS adapter.  An href and a URL are strings.       *)
(***************************************************************************)
PnsBaseUrl == "https://www.pns.hk"
categories == <<"/en/food-beverages/rice/c/04040100">>
max_pages == 10

(* pat in s *)
InStr(pat, s) ==
    \E i \in 1..(Len(s) - Len(pat) + 1) : SubSeq(s, i, i + Len(pat) - 1) = pat

(* '/p/BP_' in href or '/p/bp_' in href *)
IsProductHref(href) == InStr("/p/BP_", href) \/ InStr("/p/bp_", href)

(* href if href.startswith('http') else f"{self.base_url}{href}" *)
full_url(href) == IF Len(href) >= 4 /\ SubSeq(href, 1, 4) = "http" THEN href
                  ELSE PnsBaseUrl \o href

(* The loop over the links of a page: product_urls after it. *)
AddLinks(urls, links) == urls \cup {full_url(href) : href \in {h \in links : IsProductHref(h)}}

(* The scroll loop left whenever the height did not grow. *)
HeightNotGrown(new, last) == new <= last
(* scroll_page: if new_height == last_height: break *)
HeightUnchanged(new, last) == new = last

(* while page_num < max_pages *)
ContinuePaging(n) == n < max_pages
(* The break that is never taken. *)
ReachedEndNever(urls, old_count) == FALSE
(* if len(product_urls) == old_count: break *)
ReachedEnd(urls, old_count) == Cardinality(urls) = old_count

(***************************************************************************)
(* Text lookup over an ordered list of selectors.  matches holds, per      *)
(* selector, None when soup.select_one found no element, otherwise the     *)
(* text of the element found.  A Tag is truthy whatever it contains.       *)
(***************************************************************************)
(* extract_text that goes on to the next selector when the text is empty. *)
RECURSIVE extract_text_nonempty(_)
extract_text_nonempty(matches) ==
    IF matches = <<>> THEN None
    ELSE IF Head(matches) # None /\ Strip(Val(Head(matches))) # <<>>
    THEN Some(Strip(Val(Head(matches))))
    ELSE extract_text_nonempty(Tail(matches))

(* BaseScraper.extract_text(soup, selectors) *)
RECURSIVE extract_text(_)
extract_text(matches) ==
    IF matches = <<>> THEN None
    ELSE IF Head(matches) # None THEN Some(Strip(Val(Head(matches))))
    ELSE extract_text(Tail(matches))

(* The name lookup of MarksAndSpencerHKScraper.scrape_product: name stays  *)
(* None when no selector matches, else the text of the first element.      *)
RECURSIVE MnsNameLookup(_)
MnsNameLookup(matches) ==
    IF matches = <<>> THEN None
    ELSE IF Head(matches) # None THEN Some(Strip(Val(Head(matches))))
    ELSE MnsNameLookup(Tail(matches))

(***************************************************************************)
(* Each specification drives one part of the program; the variables of    *)
(* the other parts rest at these values.                                   *)
(***************************************************************************)
NotCalled == [exc |-> FALSE, val |-> [mant |-> <<>>, decpt |-> -1]]
NoCall == [status |-> "none", batch |-> <<>>, failAt |-> 0, before |-> EmptyStore,
           time |-> 0, order |-> <<>>]

PriceIdle ==
    /\ parser = "none" /\ ptext = <<>> /\ pout = NotCalled /\ pprev = NotCalled
    /\ pcalls = 0
PackIdle == ktext = <<>> /\ kout = PackResult(None, None) /\ kdone = FALSE
DbIdle ==
    /\ store = EmptyStore /\ now = 0 /\ calls = 0 /\ latest = <<>>
    /\ lastCall = NoCall /\ alt = EmptyStore
ScrapeIdle ==
    /\ sadapter = "none" /\ spage = None /\ sout = None /\ sstock = None
    /\ sdone = FALSE
DiscoverIdle ==
    /\ dpc = "none" /\ dcat = 0 /\ page_num = 0 /\ product_urls = {}
    /\ last_height = 0 /\ new_height = 0 /\ dscrolls = 0 /\ dfetched = 0
    /\ dlastnew = 0
RunIdle ==
    /\ rpc = "none" /\ radapter = "none" /\ rdb = FALSE /\ rurls = <<>> /\ ri = 0
    /\ rproducts = <<>> /\ rlog = <<>>
ExtractIdle == xwhich = "none" /\ xmatches = <<>> /\ xout = None /\ xdone = FALSE

(***************************************************************************)
(* Price parsing run on its own output: the first call parses an input     *)
(* text, the next parses str() of the value the first returned.            *)
(***************************************************************************)
PriceChars == {"0", "1", ".", ",", "$", "H", "K", "D", "d", "\\", " "}
DigitTextChars == {"0", "1", "."}
PriceTexts == SeqsUpTo(PriceChars, MaxTextLen) \cup SeqsUpTo(DigitTextChars, MaxDigitsLen)

InitPrice ==
    /\ parser \in {"base", "mns"}
    /\ ptext \in PriceTexts
    /\ pout = NotCalled
    /\ pprev = NotCalled
    /\ pcalls = 0
    /\ PackIdle
    /\ DbIdle
    /\ ScrapeIdle
    /\ DiscoverIdle
    /\ RunIdle
    /\ ExtractIdle

CallExtractPrice ==
    /\ parser = "base"
    /\ pcalls < 2
    /\ ~pout.exc
    /\ pout' = extract_price(ptext)
    /\ pprev' = pout
    /\ pcalls' = pcalls + 1
    /\ ptext' = IF pout'.exc THEN ptext ELSE PyStr(pout'.val)
    /\ UNCHANGED <<extractVars, parser, packVars, dbVars, scrapeVars, discoverVars, runVars>>

CallMnsExtractPrice ==
    /\ parser = "mns"
    /\ pcalls < 2
    /\ ~pout.exc
    /\ pout' = _extract_price(ptext)
    /\ pprev' = pout
    /\ pcalls' = pcalls + 1
    /\ ptext' = IF pout'.exc THEN ptext ELSE PyStr(pout'.val)
    /\ UNCHANGED <<extractVars, parser, packVars, dbVars, scrapeVars, discoverVars, runVars>>

NextPrice == CallExtractPrice \/ CallMnsExtractPrice
SpecPrice == InitPrice /\ [][NextPrice]_vars


(***************************************************************************)
(* parse_pack_size applied to one input text.                              *)
(***************************************************************************)
PackChars == {"1", "5", ".", " ", "g", "d", "s", "\\"}
PackBodies == SeqsUpTo(PackChars, MaxPackLen) \cup {<<"1", "6", "5", " ", "g">>, <<"2", " ", "k", "g">>}
PackTexts == PackBodies \cup {PackPrefix1 \o b : b \in PackBodies}
                        \cup {PackPrefix2 \o b : b \in PackBodies}

InitPack ==
    /\ ktext \in PackTexts
    /\ kout = PackResult(None, None)
    /\ kdone = FALSE
    /\ PriceIdle
    /\ DbIdle
    /\ ScrapeIdle
    /\ DiscoverIdle
    /\ RunIdle
    /\ ExtractIdle

CallParsePackSize ==
    /\ ~kdone
    /\ kout' = parse_pack_size(ktext)
    /\ kdone' = TRUE
    /\ UNCHANGED <<extractVars, ktext, priceVars, dbVars, scrapeVars, discoverVars, runVars>>

NextPack == CallParsePackSize
SpecPack == InitPack /\ [][NextPack]_vars

(***************************************************************************)
(* Calls of upsert_products on a table, with the clock running.            *)
(***************************************************************************)
F128 == [mant |-> <<1, 2, 8>>, decpt |-> 3]
F160 == [mant |-> <<1, 6>>, decpt |-> 3]
F20 == [mant |-> <<2>>, decpt |-> 2]
F5 == [mant |-> <<5>>, decpt |-> 1]

(* A Product with every optional field set, and one with none set. *)
FullProduct(u) ==
    [name |-> "Jasmine Rice 5kg", price |-> F128, currency |-> "HKD", url |-> u,
     sku |-> Some("1"), original_price |-> Some(F160),
     discount_percentage |-> Some(F20), category |-> Some("Food > Rice"),
     brand |-> Some("Marks & Spencer"), image_url |-> Some("https://img/1.jpg"),
     description |-> Some("Fragrant rice"), pack_size_quantity |-> Some(F5),
     pack_size_unit |-> Some("kg"), in_stock |-> TRUE, scraped_at |-> 0]
BareProduct(u) ==
    [name |-> "Rice", price |-> F160, currency |-> "HKD", url |-> u,
     sku |-> None, original_price |-> None, discount_percentage |-> None,
     category |-> None, brand |-> None, image_url |-> None, description |-> None,
     pack_size_quantity |-> None, pack_size_unit |-> None, in_stock |-> FALSE,
     scraped_at |-> 1]
Url1 == "https://www.marksandspencer.hk/en/food/products/rice/1"
Url2 == "https://www.marksandspencer.hk/en/food/products/tea/2"
Urls == {Url1, Url2}
ProductPool == {FullProduct(Url1), BareProduct(Url1), BareProduct(Url2)}
Batches == SeqsUpTo(ProductPool, MaxBatch)

(* latest[u] after products[1..n] were upserted in order. *)
RECURSIVE LatestAfter(_, _, _)
LatestAfter(l, products, n) ==
    IF n = 0 THEN l
    ELSE [LatestAfter(l, products, n - 1) EXCEPT ![products[n].url] = Some(products[n])]

InitDb ==
    /\ store = EmptyStore
    /\ now = 0
    /\ calls = 0
    /\ latest = [u \in Urls |-> None]
    /\ lastCall = NoCall
    /\ alt = EmptyStore
    /\ PriceIdle
    /\ PackIdle
    /\ ScrapeIdle
    /\ DiscoverIdle
    /\ RunIdle
    /\ ExtractIdle

(* One call db.upsert_products(products); statement failAt fails. *)
UpsertProducts ==
    /\ calls < MaxCalls
    /\ \E products \in Batches : \E failAt \in 0..Len(products) :
         LET res == upsert_products(store, products, failAt, now)
         IN  /\ store' = res.store
             /\ lastCall' = [status |-> res.status, batch |-> products,
                             failAt |-> failAt, before |-> store, time |-> now,
                             order |-> <<>>]
             /\ latest' = IF res.status = "committed"
                          THEN LatestAfter(latest, products, Len(products))
                          ELSE latest
    /\ calls' = calls + 1
    /\ UNCHANGED <<extractVars, now, alt, priceVars, packVars, scrapeVars, discoverVars, runVars>>

(* A second of wall-clock time passes. *)
Tick ==
    /\ now < MaxTime
    /\ now' = now + 1
    /\ UNCHANGED <<extractVars, store, calls, latest, lastCall, alt, priceVars, packVars, scrapeVars, discoverVars, runVars>>

NextDb == UpsertProducts \/ Tick
SpecDb == InitDb /\ [][NextDb]_vars

(***************************************************************************)
(* The same Products upserted two ways from the same table: as one batch   *)
(* (store), and as single-record batches in some order, gap seconds apart  *)
(* (alt).                                                                  *)
(***************************************************************************)
Perms(n) == {f \in [1..n -> 1..n] : \A i, j \in 1..n : f[i] = f[j] => i = j}

RECURSIVE UpsertSingly(_, _, _, _, _, _)
UpsertSingly(st, products, order, n, t, gap) ==
    IF n = 0 THEN st
    ELSE upsert_products(UpsertSingly(st, products, order, n - 1, t, gap),
                         <<products[order[n]]>>, 0, t + gap * (n - 1)).store

(* The table a run starts from: empty, or left by an earlier upsert. *)
InitReplay ==
    /\ \E first \in {<<>>, <<FullProduct(Url1)>>} :
         /\ store = upsert_products(EmptyStore, first, 0, 0).store
         /\ latest = LatestAfter([u \in Urls |-> None], first, Len(first))
    /\ now = 0
    /\ calls = 0
    /\ lastCall = NoCall
    /\ alt = store
    /\ PriceIdle
    /\ PackIdle
    /\ ScrapeIdle
    /\ DiscoverIdle
    /\ RunIdle
    /\ ExtractIdle

ReplayUpsert ==
    /\ calls < MaxReplays
    /\ \E products \in Batches : \E order \in Perms(Len(products)) : \E gap \in {0, 1} :
         /\ store' = upsert_products(store, products, 0, now).store
         /\ alt' = UpsertSingly(store, products, order, Len(products), now, gap)
         /\ lastCall' = [status |-> "committed", batch |-> products, failAt |-> 0,
                         before |-> store, time |-> now, order |-> order]
         /\ latest' = LatestAfter(latest, products, Len(products))
    /\ calls' = calls + 1
    /\ UNCHANGED <<extractVars, now, priceVars, packVars, scrapeVars, discoverVars, runVars>>

NextReplay == ReplayUpsert \/ Tick
SpecReplay == InitReplay /\ [][NextReplay]_vars

(***************************************************************************)
(* scrape_product (and check_stock) applied to one fetched page.           *)
(***************************************************************************)
T128 == <<"$", "1", "2", "8", ".", "0", "0">>
T160 == <<"$", "1", "6", "0", ".", "0", "0">>
T150 == <<"H", "K", "D", " ", "1", "5", "0">>
TNA == <<"N", "/", "A">>
PriceHitTexts == {T128, T160, T150, TNA}
Jasmine == "Jasmine Rice 5kg"
NameHits == {<<>>, <<"">>, <<Jasmine>>, <<"", Jasmine>>}
PackHits == {<<>>, <<PackPrefix1 \o <<"2", " ", "k", "g">>, <<"9", "g">> >>,
             << <<"1", ".", "2", ".", "3", "g">> >>}

TInStock == <<"I", "n", " ", "s", "t", "o", "c", "k", " ">>
TOutOfStock == <<"O", "u", "t", " ", "o", "f", " ", "S", "t", "o", "c", "k">>
TSold == <<"S", "O", "L", "D">>
TOut == <<" ", "o", "u", "t">>
Fragments == {TInStock, TOutOfStock, TSold, TOut}
RECURSIVE Concat(_)
Concat(parts) == IF parts = <<>> THEN <<>> ELSE Head(parts) \o Concat(Tail(parts))
PageTexts == {Concat(parts) : parts \in SeqsUpTo(Fragments, MaxFragments)}

MnsPage(name_hits, pack_hits, price_hits, original_hits, page_text) ==
    Some([name_hits |-> name_hits, pack_hits |-> pack_hits, price_hits |-> price_hits,
          original_hits |-> original_hits, sku_match |-> None,
          breadcrumb |-> <<"Food", "", "Rice">>,
          desc_hits |-> <<"Fragrant rice">>,
          img_hits |-> <<None, Some("/img/1.jpg")>>,
          page_text |-> page_text])
(* A page on which the selectors yield the name, price text and original   *)
(* price text of the end-to-end scenario.                                  *)
JasminePage(page_text) == MnsPage(<<Jasmine>>, <<>>, <<T128>>, <<T160>>, page_text)

MnsPages ==
    {None}
    \cup {MnsPage(n, k, pr, og, TInStock) :
            n \in NameHits, k \in PackHits,
            pr \in SeqsUpTo(PriceHitTexts, MaxHits) \ {<<>>},
            og \in {<<>>, <<T160>>, <<TNA, T128>>}}
    \cup {MnsPage(<<Jasmine>>, <<>>, pr, og, TInStock) :
            pr \in SeqsUpTo(PriceHitTexts, MaxHits),
            og \in SeqsUpTo(PriceHitTexts, MaxHits)}
    \cup {JasminePage(t) : t \in PageTexts}

PnsValue(name, price_value, old_value, content_size_unit, stock) ==
    Some([name |-> name, price_value |-> price_value, old_value |-> old_value,
          content_size_unit |-> content_size_unit, base_product |-> Some("BP_22596"),
          supplier_name |-> None, category_levels |-> <<"Food", "Rice">>,
          description |-> Some("Fragrant rice"), image_url |-> Some("https://img/1.jpg"),
          stock_level_status |-> stock])
PnsPage(entities, page_text) ==
    Some([ng_state |-> Some([valid |-> TRUE, entities |-> entities]),
          page_text |-> page_text])
PnsEntity(details, variants) == [key |-> "22596", details |-> details, variants |-> variants]

PnsFloats == {Zero, F128, F160}
PnsValues ==
    {PnsValue(n, pv, ov, <<>>, st) :
        n \in {None, Some(Jasmine)},
        pv \in {<<>>, <<None>>} \cup {<<Some(f)>> : f \in PnsFloats},
        ov \in {None} \cup {Some(f) : f \in PnsFloats},
        st \in {None, Some("inStock"), Some("outOfStock")}}
    \cup {PnsValue(Some(Jasmine), <<Some(F128)>>, Some(F160), Some(u), Some("inStock")) :
            u \in {<<"3", "3", "0", "M", "L", "X", "1", "2">>, <<"d", "\\", "g">>}}
PnsPages ==
    {None,
     Some([ng_state |-> None, page_text |-> TInStock]),
     Some([ng_state |-> Some([valid |-> FALSE, entities |-> <<>>]), page_text |-> TInStock]),
     PnsPage(<<>>, TInStock),
     PnsPage(<<PnsEntity(None, None)>>, TInStock)}
    \cup {PnsPage(<<PnsEntity(v, None)>>, t) : v \in PnsValues, t \in {TInStock, TOutOfStock}}
    \cup {PnsPage(<<PnsEntity(None, v), PnsEntity(w, None)>>, TInStock) :
            v \in PnsValues, w \in {PnsValue(Some("Rice"), <<Some(F160)>>, None, <<>>, None)}}
    \cup {PnsPage(<<PnsEntity(v, w)>>, TInStock) :
            v, w \in {PnsValue(Some("Rice"), <<Some(F160)>>, None, <<>>, None),
                      PnsValue(Some(Jasmine), <<Some(F128)>>, Some(F160), <<>>,
                               Some("inStock"))}}

InitScrape ==
    /\ sadapter \in {"mns", "pns", "base"}
    /\ spage \in IF sadapter = "pns" THEN PnsPages ELSE MnsPages
    /\ sout = None
    /\ sstock = None
    /\ sdone = FALSE
    /\ PriceIdle
    /\ PackIdle
    /\ DbIdle
    /\ DiscoverIdle
    /\ RunIdle
    /\ ExtractIdle

(* MarksAndSpencerHKScraper.scrape_product(url) on the fetched page. *)
CallMnsScrapeProduct ==
    /\ sadapter = "mns" /\ ~sdone
    /\ sout' = MnsScrapeProduct(Url1, spage)
    /\ sdone' = TRUE
    /\ UNCHANGED <<extractVars, sadapter, spage, sstock, priceVars, packVars, dbVars, discoverVars, runVars>>

(* PNSScraper.scrape_product(url) on the fetched page. *)
CallPnsScrapeProduct ==
    /\ sadapter = "pns" /\ ~sdone
    /\ sout' = PnsScrapeProduct(Url1, spage)
    /\ sdone' = TRUE
    /\ UNCHANGED <<extractVars, sadapter, spage, sstock, priceVars, packVars, dbVars, discoverVars, runVars>>

(* BaseScraper.check_stock(soup) with the default indicators. *)
CallCheckStock ==
    /\ sadapter = "base" /\ ~sdone /\ spage # None
    /\ sstock' = Some(check_stock(Val(spage).page_text, out_of_stock_indicators))
    /\ sdone' = TRUE
    /\ UNCHANGED <<extractVars, sadapter, spage, sout, priceVars, packVars, dbVars, discoverVars, runVars>>

NextScrape == CallMnsScrapeProduct \/ CallPnsScrapeProduct \/ CallCheckStock
SpecScrape == InitScrape /\ [][NextScrape]_vars

(***************************************************************************)
(* PNSScraper.get_product_urls, one page at a time.  What a fetch returns, *)
(* the links of the page and the heights the browser reports are inputs.   *)
(***************************************************************************)
ProductHrefs ==
    {"/en/rice" \o m \o DigitChar(i) : m \in {"/p/BP_", "/p/bp_"}, i \in 1..MaxIds}
Hrefs == ProductHrefs \cup {PnsBaseUrl \o "/en/rice/p/BP_1", "/en/food-beverages/rice/c/04040100",
                            "http://other.example/p/bp_1"}
LinkSets == {{}} \cup {{h} : h \in Hrefs}
               \cup {{"/en/rice/p/BP_1", PnsBaseUrl \o "/en/rice/p/BP_1"}}
Heights == 0..MaxHeight

InitDiscover ==
    /\ dpc = "category"
    /\ dcat = 1
    /\ page_num = 0
    /\ product_urls = {}
    /\ last_height = 0
    /\ new_height = 0
    /\ dscrolls = 0
    /\ dfetched = 0
    /\ dlastnew = 0
    /\ PriceIdle
    /\ PackIdle
    /\ DbIdle
    /\ ScrapeIdle
    /\ RunIdle
    /\ ExtractIdle

(* for category in self.categories: soup = self.fetch_page(category_url);  *)
(* if not soup: continue.  Otherwise scroll_page reads the first height.   *)
FetchCategory ==
    /\ dpc = "category" /\ dcat <= Len(categories)
    /\ dfetched' = 1
    /\ dlastnew' = 0
    /\ dscrolls' = 0
    /\ \E ok \in BOOLEAN :
         IF ok
         THEN /\ dpc' = "scroll"
              /\ last_height' \in Heights
              /\ dcat' = dcat
         ELSE /\ dpc' = "category"
              /\ dcat' = dcat + 1
              /\ last_height' = last_height
    /\ UNCHANGED <<extractVars, page_num, product_urls, new_height, priceVars, packVars,
                   dbVars, scrapeVars, runVars>>

(* One cycle of scroll_page's loop that does not break: the browser        *)
(* reports new_height, and last_height = new_height.                       *)
ScrollMore ==
    /\ dpc = "scroll" /\ dscrolls < MaxScrolls
    /\ \E h \in Heights :
         /\ ~HeightUnchanged(h, last_height)
         /\ new_height' = h
         /\ last_height' = h
    /\ dscrolls' = dscrolls + 1
    /\ UNCHANGED <<extractVars, dpc, dcat, page_num, product_urls, dfetched, dlastnew,
                   priceVars, packVars, dbVars, scrapeVars, runVars>>

(* The cycle of scroll_page's loop that breaks; scroll_page returns, the   *)
(* page source is parsed again and its links are added; page_num = 1.      *)
ScrollEndAndScan ==
    /\ dpc = "scroll"
    /\ \E h \in Heights :
         /\ HeightUnchanged(h, last_height)
         /\ new_height' = h
    /\ \E links \in LinkSets :
         /\ product_urls' = AddLinks(product_urls, links)
         /\ dlastnew' = IF product_urls' # product_urls THEN 1 ELSE 0
    /\ page_num' = 1
    /\ dpc' = "paging"
    /\ UNCHANGED <<extractVars, dcat, last_height, dscrolls, dfetched, priceVars, packVars,
                   dbVars, scrapeVars, runVars>>

(* One pass of the while loop: page_num += 1, the page is fetched (break   *)
(* when that fails), its links are added, break when none was new.         *)
FetchNextPage ==
    /\ dpc = "paging" /\ ContinuePaging(page_num)
    /\ page_num' = page_num + 1
    /\ dfetched' = dfetched + 1
    /\ \E ok \in BOOLEAN : \E links \in LinkSets :
         IF ~ok
         THEN /\ dpc' = "category" /\ dcat' = dcat + 1
              /\ UNCHANGED <<extractVars, product_urls, dlastnew>>
         ELSE /\ product_urls' = AddLinks(product_urls, links)
              /\ dlastnew' = IF product_urls' # product_urls THEN page_num' ELSE dlastnew
              /\ IF ReachedEnd(product_urls', Cardinality(product_urls))
                 THEN dpc' = "category" /\ dcat' = dcat + 1
                 ELSE dpc' = "paging" /\ dcat' = dcat
    /\ UNCHANGED <<extractVars, last_height, new_height, dscrolls, priceVars, packVars,
                   dbVars, scrapeVars, runVars>>

(* The while condition fails: on to the next category. *)
ExitPaging ==
    /\ dpc = "paging" /\ ~ContinuePaging(page_num)
    /\ dpc' = "category"
    /\ dcat' = dcat + 1
    /\ UNCHANGED <<extractVars, page_num, product_urls, last_height, new_height, dscrolls,
                   dfetched, dlastnew,
                   priceVars, packVars, dbVars, scrapeVars, runVars>>

(* return list(product_urls) *)
ReturnUrls ==
    /\ dpc = "category" /\ dcat > Len(categories)
    /\ dpc' = "returned"
    /\ UNCHANGED <<extractVars, dcat, page_num, product_urls, last_height, new_height,
                   dscrolls, dfetched,
                   dlastnew, priceVars, packVars, dbVars, scrapeVars, runVars>>

NextDiscover ==
    FetchCategory \/ ScrollMore \/ ScrollEndAndScan \/ FetchNextPage \/ ExitPaging
    \/ ReturnUrls
SpecDiscover == InitDiscover /\ [][NextDiscover]_vars

(***************************************************************************)
(* BaseScraper.scrape_all(db_manager) of one adapter, on a table that may  *)
(* hold rows of an earlier run.  What get_product_urls returns, what each  *)
(* fetch returns and whether a statement fails are inputs.  fetch_page     *)
(* sleeps, so a second passes with every page.                             *)
(***************************************************************************)
RunMnsPages ==
    {None, JasminePage(TInStock), JasminePage(<<>>), JasminePage(TOutOfStock),
     MnsPage(<<"">>, <<>>, <<T128>>, <<T160>>, TInStock),
     MnsPage(<<Jasmine>>, <<PackPrefix1 \o <<"5", " ", "k", "g">> >>, <<T128>>, <<T160>>, <<>>),
     MnsPage(<<Jasmine>>, << <<"1", ".", "2", ".", "3", "g">> >>, <<T128>>, <<T160>>, TInStock),
     MnsPage(<<"Rice">>, <<>>, <<TNA, T150>>, <<>>, TInStock)}
RunPnsPages ==
    {None, PnsPage(<<>>, TInStock),
     PnsPage(<<PnsEntity(PnsValue(Some(Jasmine), <<Some(F128)>>, Some(F160), None,
                                  Some("inStock")), None)>>, TInStock),
     PnsPage(<<PnsEntity(None, PnsValue(Some("Rice"), <<Some(F160)>>, None, None, None))>>,
             TInStock)}
RunPages(which) == IF which = "mns" THEN RunMnsPages ELSE RunPnsPages
UrlLists == {<<>>, <<Url1>>, <<Url2>>, <<Url1, Url2>>, <<Url2, Url1>>}
EarlierProduct ==
    MkProduct("Rice", F160, Url1, None, None, None, None, Some("Marks & Spencer"), None,
              None, None, None, FALSE)

Init ==
    /\ rpc = "start"
    /\ radapter \in {"mns", "pns"}
    /\ rdb \in BOOLEAN
    /\ rurls = <<>>
    /\ ri = 0
    /\ rproducts = <<>>
    /\ rlog = <<>>
    /\ store \in {EmptyStore, upsert_products(EmptyStore, <<EarlierProduct>>, 0, 0).store}
    /\ now = 0
    /\ calls = 0 /\ latest = <<>> /\ lastCall = NoCall /\ alt = EmptyStore
    /\ PriceIdle
    /\ PackIdle
    /\ ScrapeIdle
    /\ DiscoverIdle
    /\ ExtractIdle

(* product_urls = self.get_product_urls() *)
GetProductUrls ==
    /\ rpc = "start"
    /\ rurls' \in UrlLists
    /\ ri' = 1
    /\ rpc' = "loop"
    /\ UNCHANGED <<extractVars, radapter, rdb, rproducts, rlog, priceVars, packVars, dbVars,
                   scrapeVars, discoverVars>>

(* One pass of the for loop: scrape_product(url), and for a Product the    *)
(* append and db_manager.upsert_products([product]), whose exception       *)
(* leaves scrape_all.                                                      *)
ScrapeOne ==
    /\ rpc = "loop" /\ ri <= Len(rurls)
    /\ now' = now + 1
    /\ \E page \in RunPages(radapter) : \E failAt \in {0, 1} :
         LET url == rurls[ri]
             product == ScrapeProduct(radapter, url, page)
             res == upsert_products(store, <<Val(product)>>, failAt, now')
             saved == product # None /\ rdb
         IN  /\ rproducts' = IF product = None THEN rproducts
                             ELSE Append(rproducts, Val(product))
             /\ store' = IF saved THEN res.store ELSE store
             /\ rpc' = IF saved /\ res.status = "raised" THEN "raised" ELSE "loop"
             /\ rlog' = Append(rlog, [url |-> url, page |-> page, product |-> product,
                                      failAt |-> IF saved THEN failAt ELSE 0,
                                      status |-> IF saved THEN res.status ELSE "none",
                                      time |-> now'])
    /\ ri' = ri + 1
    /\ UNCHANGED <<extractVars, radapter, rdb, rurls, calls, latest, lastCall, alt, priceVars,
                   packVars, scrapeVars, discoverVars>>

(* return products *)
ReturnProducts ==
    /\ rpc = "loop" /\ ri > Len(rurls)
    /\ rpc' = "returned"
    /\ UNCHANGED <<extractVars, radapter, rdb, rurls, ri, rproducts, rlog, priceVars, packVars,
                   dbVars, scrapeVars, discoverVars>>

Next == GetProductUrls \/ ScrapeOne \/ ReturnProducts
Spec == Init /\ [][Next]_vars

(***************************************************************************)
(* A text lookup called on the matches of an ordered list of selectors.   *)
(***************************************************************************)
ElementTexts == {<<>>, <<" ">>, <<"R">>, <<" ", "R", " ">>, <<"T">>}
SelectorMatches == {None} \cup {Some(t) : t \in ElementTexts}

InitExtract ==
    /\ xwhich \in {"base", "mns"}
    /\ xmatches \in SeqsUpTo(SelectorMatches, MaxSelectors)
    /\ xout = None
    /\ xdone = FALSE
    /\ PriceIdle
    /\ PackIdle
    /\ DbIdle
    /\ ScrapeIdle
    /\ DiscoverIdle
    /\ RunIdle

CallExtractText ==
    /\ xwhich = "base" /\ ~xdone
    /\ xout' = extract_text(xmatches)
    /\ xdone' = TRUE
    /\ UNCHANGED <<xwhich, xmatches, priceVars, packVars, dbVars, scrapeVars,
                   discoverVars, runVars>>

CallNameLookup ==
    /\ xwhich = "mns" /\ ~xdone
    /\ xout' = MnsNameLookup(xmatches)
    /\ xdone' = TRUE
    /\ UNCHANGED <<xwhich, xmatches, priceVars, packVars, dbVars, scrapeVars,
                   discoverVars, runVars>>

NextExtract == CallExtractText \/ CallNameLookup
SpecExtract == InitExtract /\ [][NextExtract]_vars

(***************************************************************************)
(* Properties.                                                             *)
(***************************************************************************)

(* C6 as stated: price parsing is idempotent on its own output, for every  *)
(* input text and both parsers: the second call, which parses str() of the *)
(* first call's value, returns that value again.                           *)
C6_IdempotentEveryText == pcalls = 2 => pout = pprev

(* str(float) is positional for 0 and for 1e-4 <= v < 1e16. *)
PositionalRepr(x) == x.mant = <<>> \/ (x.decpt > -4 /\ x.decpt <= 16)

(* C6 amended: for every input text on which the parser returns a value v  *)
(* that is 0 or has 1e-4 <= v < 1e16, parsing str(v) returns v again, for  *)
(* both parsers.                                                           *)
C6_IdempotentPositional ==
    (pcalls = 2 /\ PositionalRepr(pprev.val)) => (~pout.exc /\ pout = pprev)

(* C6 witness: _extract_price has parsed a text to a non-zero value with a *)
(* fraction, and parsed the string form of that value to the same value.   *)
C6_Witness ==
    /\ parser = "mns" /\ pcalls = 2
    /\ pprev.val.mant # <<>> /\ Len(pprev.val.mant) > pprev.val.decpt
    /\ pout = pprev

(* float(m) for a match of the pattern meant by base.py's parse_pack_size, *)
(* '<number><optional spaces><letters>'. *)
IsNumberUnit(t) == MnsPackMatch(t) # None /\ PyFloat(Val(MnsPackMatch(t)).g1) # None

(* C7 as stated: after the 'Pack size - ' prefix is stripped, a text of    *)
(* the shape <number><optional spaces><letters> gives (number, unit);      *)
(* every call returns, and never with only one side of the pair set.       *)
C7_PackSizeParsed ==
    kdone =>
        LET t == Strip(Remove(Remove(ktext, PackPrefix1), PackPrefix2))
        IN  /\ ~kout.exc
            /\ (kout.quantity = None) <=> (kout.unit = None)
            /\ IsNumberUnit(t) =>
                 /\ kout.quantity = PyFloat(Val(MnsPackMatch(t)).g1)
                 /\ kout.unit = Some(Val(MnsPackMatch(t)).g2)

RowsOf(st, u) == {r \in st.rows : r.url = u}
BatchUrls(b) == {b[i].url : i \in 1..Len(b)}

(* C1: after any sequence of successful upsert_products calls the table    *)
(* holds exactly one row per url ever upserted and none for any other url, *)
(* and every Product field of that row is the one of the Product upserted  *)
(* last with that url, None included.                                      *)
C1_OneRowLatestProduct ==
    \A u \in Urls :
        IF latest[u] = None THEN RowsOf(store, u) = {}
        ELSE /\ Cardinality(RowsOf(store, u)) = 1
             /\ \A r \in RowsOf(store, u) : ProductOfRow(r) = Val(latest[u])

(* C1 witness: a committed call has overwritten stored non-null optional   *)
(* fields of a url with None.                                              *)
C1_Witness ==
    /\ lastCall.status = "committed"
    /\ \E o \in lastCall.before.rows : \E r \in store.rows :
         /\ o.url = r.url
         /\ o.sku # None /\ o.original_price # None
         /\ r.sku = None /\ r.original_price = None

(* C2: when a statement of the batch fails, the table after the call is    *)
(* the table before the call: none of the batch's records is in it.        *)
C2_FailedBatchLeavesStore ==
    lastCall.status = "raised" => store = lastCall.before

(* C2 witness: the second statement of a batch failed after the first had  *)
(* been executed.                                                          *)
C2_Witness ==
    /\ lastCall.status = "raised"
    /\ lastCall.failAt = 2
    /\ ExecMany(lastCall.before, lastCall.batch, 1, lastCall.time) # lastCall.before

(* C3: a url's first upsert inserts a row whose created_at and updated_at  *)
(* are both the time of the insert; a later successful upsert of the url   *)
(* keeps the row's created_at and id and moves updated_at forward to the   *)
(* time of that merge.                                                     *)
C3_CreatedOnceUpdatedOnMerge ==
    lastCall.status = "committed" =>
        \A r \in store.rows :
            LET old == RowsOf(lastCall.before, r.url)
            IN  /\ (old = {} => /\ r.created_at = lastCall.time
                                /\ r.updated_at = lastCall.time)
                /\ \A o \in old :
                     /\ r.created_at = o.created_at
                     /\ r.id = o.id
                     /\ IF r.url \in BatchUrls(lastCall.batch)
                        THEN r.updated_at = lastCall.time /\ r.updated_at >= o.updated_at
                        ELSE r.updated_at = o.updated_at

(* C3 witness: a row inserted earlier was merged at a later time. *)
C3_Witness ==
    /\ lastCall.status = "committed"
    /\ \E r \in store.rows : \E o \in lastCall.before.rows :
         /\ o.url = r.url /\ r.url \in BatchUrls(lastCall.batch)
         /\ r.updated_at > r.created_at /\ r.updated_at > o.updated_at

(* C4 as stated: one batch, or single-record batches in any order, give    *)
(* the same final table.                                                   *)
C4_SameFinalStore == lastCall.status = "committed" => alt = store

DistinctUrls(b) == \A i, j \in 1..Len(b) : b[i].url = b[j].url => i = j
Products(st) == {ProductOfRow(r) : r \in st.rows}

(* C4 amended: for Products with pairwise distinct urls, one batch, or     *)
(* single-record batches in any order, give tables with the same urls, one *)
(* row each, and the same Product fields in every row; the rows' id,       *)
(* created_at and updated_at may differ.                                   *)
C4_SameProducts ==
    (lastCall.status = "committed" /\ DistinctUrls(lastCall.batch)) =>
        /\ Products(alt) = Products(store)
        /\ \A u \in Urls : Cardinality(RowsOf(alt, u)) = Cardinality(RowsOf(store, u))

(* C4 witness: two Products were upserted as one batch and, in the other   *)
(* order, one by one. *)
C4_Witness ==
    /\ lastCall.status = "committed"
    /\ Len(lastCall.batch) = 2 /\ DistinctUrls(lastCall.batch)
    /\ lastCall.order = <<2, 1>>
    /\ Products(alt) = Products(store)
    /\ alt # store

(* d is the quotient 100 * (o - p) / o rounded to two places: a float of   *)
(* at most two decimals within half a hundredth of the quotient.          *)
IsRoundedDiscount(d, o, p) ==
    LET k == CommonScale(o, p)
        oi == IntAt(o, k)
        err == IntAt(d, 2) * oi - 10000 * (oi - IntAt(p, k))
    IN  /\ FracDigits(d) <= 2
        /\ 2 * err <= oi /\ 2 * err >= -oi

(* C5 as stated: for every Product an adapter's scrape_product returns, if *)
(* original_price is present and exceeds price (price = 0 included) then   *)
(* discount_percentage is round(100 * (original_price - price) /           *)
(* original_price, 2), and otherwise it is absent.                         *)
C5_DiscountAnyPrice ==
    (sdone /\ sout # None) =>
        LET p == Val(sout)
        IN  IF p.original_price # None /\ Gt(Val(p.original_price), p.price)
            THEN /\ p.discount_percentage # None
                 /\ IsRoundedDiscount(Val(p.discount_percentage), Val(p.original_price),
                                      p.price)
            ELSE p.discount_percentage = None

(* C5 amended: if original_price is present and exceeds price and price is *)
(* greater than 0 then discount_percentage is round(100 * (original_price  *)
(* - price) / original_price, 2); otherwise, a price of 0 included, it is  *)
(* absent.                                                                 *)
C5_DiscountPositivePrice ==
    (sdone /\ sout # None) =>
        LET p == Val(sout)
        IN  IF /\ p.original_price # None /\ Gt(Val(p.original_price), p.price)
               /\ Positive(p.price)
            THEN /\ p.discount_percentage # None
                 /\ IsRoundedDiscount(Val(p.discount_percentage), Val(p.original_price),
                                      p.price)
            ELSE p.discount_percentage = None

(* C5 witness: a Product with a discount that is not a whole number of     *)
(* tenths, so that the rounding to two places decided it.                  *)
C5_Witness ==
    /\ sdone /\ sout # None
    /\ Val(sout).discount_percentage # None
    /\ FracDigits(Val(Val(sout).discount_percentage)) = 2

(* The page text holds one of the indicator phrases, letter case ignored. *)
HasIndicator(text) ==
    \E n \in 1..Len(out_of_stock_indicators) :
        LET ind == out_of_stock_indicators[n]
        IN  \E i \in 0..(Len(text) - Len(ind)) :
                \A j \in 1..Len(ind) : LowerOf(text[i + j]) = ind[j]

YieldsJasmine(pg) ==
    /\ pg.name_hits = <<"Jasmine Rice 5kg">>
    /\ pg.price_hits = <<T128>>
    /\ pg.original_hits = <<T160>>
    /\ ~HasIndicator(pg.page_text)

(* C10: in a run of the M&S adapter with a database, a page that yields    *)
(* name "Jasmine Rice 5kg", price text "$128.00", original price text      *)
(* "$160.00" and no out-of-stock indicator, whose pack size text (if any)  *)
(* parses and whose statement does not fail, leaves exactly one row for    *)
(* its url, with price 128.0, original_price 160.0, discount_percentage    *)
(* 20.0 and in_stock 1.                                                    *)
C10_JasmineRowPersisted ==
    \A i \in 1..Len(rlog) :
        LET e == rlog[i]
        IN  (/\ radapter = "mns" /\ rdb
             /\ e.page # None /\ YieldsJasmine(Val(e.page))
             /\ ~MnsPack(Val(e.page).pack_hits).exc
             /\ e.failAt = 0)
            => /\ Cardinality(RowsOf(store, e.url)) = 1
               /\ \A r \in RowsOf(store, e.url) :
                    /\ r.price = F128
                    /\ r.original_price = Some(F160)
                    /\ r.discount_percentage = Some(F20)
                    /\ r.in_stock = 1

(* C10 witness: the run returned after the scenario's page was scraped for *)
(* a url that already had a row, and persisted.                            *)
C10_Witness ==
    /\ rpc = "returned" /\ radapter = "mns" /\ rdb
    /\ \E i \in 1..Len(rlog) :
         /\ rlog[i].page # None /\ YieldsJasmine(Val(rlog[i].page))
         /\ rlog[i].status = "committed"
         /\ rlog[i].url = Url1
         /\ \E r \in RowsOf(store, Url1) : r.created_at = 0 /\ r.updated_at > 0

(* Extraction from an M&S page fails: the fetch failed, no selector gave a *)
(* name or the name text is empty, or parsing the page raised.             *)
MnsExtractionFails(page) ==
    \/ page = None
    \/ Val(page).name_hits = <<>>
    \/ Head(Val(page).name_hits) = ""
    \/ MnsPack(Val(page).pack_hits).exc

(* The Products of the log entries i..Len(log), in order. *)
RECURSIVE LoggedProducts(_, _)
LoggedProducts(log, i) ==
    IF i > Len(log) THEN <<>>
    ELSE IF log[i].product = None THEN LoggedProducts(log, i + 1)
    ELSE <<Val(log[i].product)>> \o LoggedProducts(log, i + 1)

(* C11: in scrape_all a failed extraction for a URL (fetch failure,        *)
(* missing or empty name, exception while parsing) yields no record for    *)
(* that URL and does not stop the run: the run is only ever left by a      *)
(* failing upsert of a Product, a run that returns has processed every     *)
(* discovered URL, and the list holds exactly the Products of the URLs     *)
(* whose extraction succeeded, in order, each with a non-empty name.       *)
C11_FailedExtractionSkipped ==
    /\ \A i \in 1..Len(rlog) :
          (radapter = "mns" /\ MnsExtractionFails(rlog[i].page))
             <=> (radapter = "mns" /\ \A k \in 1..Len(rproducts) : rproducts[k].url # rlog[i].url)
    /\ rproducts = LoggedProducts(rlog, 1)
    /\ \A k \in 1..Len(rproducts) : rproducts[k].name # ""
    /\ rpc = "raised" => rlog[Len(rlog)].product # None
    /\ rpc = "returned" =>
          /\ Len(rlog) = Len(rurls)
          /\ \A i \in 1..Len(rlog) : rlog[i].url = rurls[i]

(* C11 witness: a run of the M&S adapter returned one Product after the    *)
(* extraction for the first of two URLs failed.                            *)
C11_Witness ==
    /\ rpc = "returned" /\ radapter = "mns"
    /\ Len(rlog) = 2 /\ Len(rproducts) = 1
    /\ MnsExtractionFails(rlog[1].page)
    /\ rproducts[1].url = rlog[2].url

(* C12: a failing statement inside upsert_products is not swallowed.  In   *)
(* scrape_all the failing call leaves the table as it was before the call  *)
(* and ends the run with the error (no further URL is processed), and the  *)
(* rows committed by the earlier single-record batches of the run stay.    *)
C12_PersistenceFailureRaised ==
    /\ [](/\ \A i \in 1..Len(rlog) :
               /\ rlog[i].failAt = 1 <=> rlog[i].status = "raised"
               /\ rlog[i].status = "raised" <=> (i = Len(rlog) /\ rpc = "raised")
               /\ rlog[i].status = "committed" =>
                     \E r \in RowsOf(store, rlog[i].url) :
                         ProductOfRow(r) = Val(rlog[i].product))
    /\ [][rpc' = "raised" => (rpc = "loop" /\ store' = store)]_vars

(* C12 witness: the run ended with the error of the second URL's upsert    *)
(* while the row committed for the first URL is in the table.              *)
C12_Witness ==
    /\ rpc = "raised" /\ Len(rlog) = 2
    /\ rlog[1].status = "committed" /\ rlog[2].status = "raised"
    /\ \E r \in RowsOf(store, rlog[1].url) : ProductOfRow(r) = Val(rlog[1].product)

(* The value of the first decimal number in the text once ',', '$' and the *)
(* currency tokens are removed; 0.0 when there is none.                    *)
FirstNumber(which, text) ==
    LET t0 == Remove(Remove(Remove(text, <<",">>), <<"$">>), HKD)
        t == Strip(IF which = "base" THEN Remove(t0, HK) ELSE t0)
        m == MnsPriceSearch(t)
    IN  IF m = None THEN Zero ELSE Val(PyFloat(Val(m)))

(* C13: for every input text (the empty or absent one included) both      *)
(* BaseScraper.extract_price and MarksAndSpencerHKScraper._extract_price   *)
(* return without raising, and return the value of the first decimal       *)
(* number of the cleaned text, or 0.0 when it has none.                    *)
C13_PriceOfFirstNumber ==
    [][(pcalls = 0 /\ pcalls' = 1) =>
          (~pout'.exc /\ pout'.val = FirstNumber(parser, ptext))]_vars

(* C14: every Product built by an adapter's scrape_product carries as      *)
(* scraped_at the time at which it was extracted, so that two products     *)
(* extracted at different times of a run carry different times.            *)
C14_ScrapedAtExtractionTime ==
    \A i \in 1..Len(rlog) :
        rlog[i].product # None => Val(rlog[i].product).scraped_at = rlog[i].time

(* The selectors that matched an element, and those whose element has a    *)
(* text that is not empty once trimmed.                                    *)
Matched(matches) == {i \in 1..Len(matches) : matches[i] # None}
MatchedNonEmpty(matches) == {i \in Matched(matches) : Strip(Val(matches[i])) # <<>>}
Least(S) == CHOOSE i \in S : \A j \in S : i <= j

(* C15 as stated: the lookup returns the trimmed text of the first         *)
(* selector whose match is non-empty, skipping a selector that matches an  *)
(* element with empty text, and nothing when no selector gives a non-empty *)
(* match.                                                                  *)
C15_FirstNonEmptyMatch ==
    xdone =>
        IF MatchedNonEmpty(xmatches) = {} THEN xout = None
        ELSE xout = Some(Strip(Val(xmatches[Least(MatchedNonEmpty(xmatches))])))

(* C15 amended: the lookup returns the trimmed text of the first selector  *)
(* that matches an element, also when that text is empty (a later selector *)
(* is then not tried), and nothing when no selector matches.               *)
C15_FirstMatch ==
    xdone =>
        IF Matched(xmatches) = {} THEN xout = None
        ELSE xout = Some(Strip(Val(xmatches[Least(Matched(xmatches))])))

(* C15 witness: the lookup returned the empty text of the first matching   *)
(* selector although a later selector matched an element with a text.      *)
C15_Witness ==
    /\ xdone /\ xout = Some(<<>>)
    /\ MatchedNonEmpty(xmatches) # {}

(* C16: PNSScraper.scrape_product takes the entry of the first key under   *)
(* entities, reads the product data from its details.value when that is    *)
(* non-empty and from its variants.value only otherwise, and returns no    *)
(* Product when the page has no embedded state, no entity key, or neither  *)
(* path has data.                                                          *)
C16_EntryResolved ==
    (sdone /\ sadapter = "pns" /\ spage # None) =>
        LET st == Val(spage).ng_state
            NoData == \/ st = None
                      \/ Val(st).entities = <<>>
                      \/ /\ Val(st).entities[1].details = None
                         /\ Val(st).entities[1].variants = None
        IN  /\ NoData => sout = None
            /\ sout # None =>
                 /\ ~NoData
                 /\ LET entry == Val(st).entities[1]
                        d == IF entry.details # None THEN Val(entry.details)
                             ELSE Val(entry.variants)
                    IN  /\ Some(Val(sout).name) = d.name
                        /\ Val(sout).price = IF d.price_value = <<>> THEN Zero
                                             ELSE Val(Val(d.price_value))
                        /\ Val(sout).in_stock = (d.stock_level_status = Some("inStock"))

(* C16 witness: a Product was read from variants.value of the first entry, *)
(* whose details.value had no data, on a page with a second entry.         *)
C16_Witness ==
    /\ sdone /\ sadapter = "pns" /\ sout # None
    /\ Len(Val(Val(spage).ng_state).entities) = 2
    /\ Val(Val(spage).ng_state).entities[1].details = None

(* C17 as stated: scroll_page stops scrolling as soon as one cycle         *)
(* produces no growth in height, the new height being equal to or smaller  *)
(* than the last one: whenever its loop goes on, the height has grown.     *)
C17_StopsWithoutGrowth ==
    [][(dpc = "scroll" /\ dpc' = "scroll" /\ dscrolls' = dscrolls + 1)
          => new_height' > last_height]_vars

(* C17 amended: scroll_page stops as soon as one cycle leaves the height   *)
(* unchanged: it returns in the first cycle whose new height equals the    *)
(* last height, and goes on, with the new height as the last one, after a  *)
(* cycle whose new height is different, smaller or greater.                *)
C17_StopsWhenUnchanged ==
    [][/\ (dpc = "scroll" /\ dpc' = "scroll" /\ dscrolls' = dscrolls + 1)
             => (new_height' # last_height /\ last_height' = new_height')
       /\ (dpc = "scroll" /\ dpc' = "paging") => new_height' = last_height]_vars

(* C17 witness: scroll_page returned at height 0 after exactly one cycle   *)
(* that changed the height (to 0, so the height had shrunk) and one that   *)
(* left it unchanged.                                                      *)
C17_Witness ==
    /\ dpc = "paging" /\ dscrolls = 1
    /\ new_height = 0 /\ last_height = 0

(* The Products of the rows written during the run (the run's clock starts *)
(* at 1; rows of earlier runs carry time 0).                               *)
PersistedByRun == {ProductOfRow(r) : r \in {q \in store.rows : q.updated_at >= 1}}

=============================================================================
